---- MODULE Spec2Model ----
(***************************************************************************)
(* Model of the AWS::SQS::Queue resource provider                          *)
(* (localstack/services/sqs/resource_providers/aws_sqs_queue.py).          *)
(*                                                                         *)
(* Strings are sequences of one-character strings, so that slicing         *)
(* ([:-5]), concatenation and suffix tests are computed as the code        *)
(* computes them.  A resource model (a Python dict) is a function whose    *)
(* DOMAIN is the set of keys that are present.  Attribute values carry     *)
(* their Python type in the field t.                                       *)
(***************************************************************************)
EXTENDS Integers, Sequences, FiniteSets, TLC

VARIABLES
    stack_name,           \* request.stack_name, fixed for the logical resource
    logical_resource_id,  \* request.logical_resource_id, fixed likewise
    queues,               \* the queue service: set of [name, attrs, tags]
    phase,                \* orchestrator's view: "ABSENT", "PRESENT", "DELETED",
                          \* or "FAILED" once create has raised (it is not retried)
    previous_state,       \* the model returned by the last successful create/update
    pc,                   \* position inside the running handler, or "idle"
    req,                  \* locals of the running handler; what is kept of them
                          \* after the return is what the result depends on
    last,                 \* outcome of the last completed handler call
    calls,                \* service calls issued by the running (or last) handler
    pre,                  \* the service's queues when the handler was entered
    mid,                  \* the service's queues right after update's delete_queue
    assigned,             \* what the service returned to the handler (url, arn)
    clean,                \* no handler call has raised so far in this lifecycle
    del_hist,             \* outcomes of the consecutive delete calls made so far
    faults,               \* service faults injected so far
    issued                \* every (QueueUrl, Arn) pair the service has handed out

vars == <<stack_name, logical_resource_id, queues, phase, previous_state, pc,
          req, last, calls, pre, mid, assigned, clean, del_hist, faults, issued>>

---------------------------------------------------------------------------
(* Bounds *)

MaxStackLen == 2      \* longest stack name tried
MaxDeletes == 2       \* consecutive delete calls the orchestrator issues
MaxFaults == 1        \* service faults injected in one lifecycle

---------------------------------------------------------------------------
(* Strings *)

Empty == [k \in {} |-> TRUE]

Has(m, k) == k \in DOMAIN m

Put(m, k, v) == (k :> v) @@ m

FIFO_SUFFIX == <<".", "f", "i", "f", "o">>

\* Python s[:-n]
DropLast(s, n) == IF Len(s) > n THEN SubSeq(s, 1, Len(s) - n) ELSE <<>>

EndsWith(s, suf) ==
    /\ Len(s) >= Len(suf)
    /\ SubSeq(s, Len(s) - Len(suf) + 1, Len(s)) = suf

Digits == <<"0", "1", "2", "3", "4", "5", "6", "7", "8", "9">>

RECURSIVE NatToStr(_)
NatToStr(n) ==
    IF n < 10 THEN <<Digits[n + 1]>>
    ELSE NatToStr(n \div 10) \o <<Digits[(n % 10) + 1]>>

\* Python str(int)
IntToStr(n) == IF n < 0 THEN <<"-">> \o NatToStr(0 - n) ELSE NatToStr(n)

\* Python str(bool)
BoolToStr(b) == IF b THEN <<"T", "r", "u", "e">> ELSE <<"F", "a", "l", "s", "e">>

LowerChar(c) == CASE c = "T" -> "t" [] c = "F" -> "f" [] OTHER -> c

\* Python str.lower()
Lower(s) == [i \in 1..Len(s) |-> LowerChar(s[i])]

---------------------------------------------------------------------------
(* Property values, tagged with their Python type *)

VNone == [t |-> "none"]
VStr(s) == [t |-> "str", s |-> s]
VBool(b) == [t |-> "bool", b |-> b]
VInt(i) == [t |-> "int", i |-> i]
VDict(d) == [t |-> "dict", d |-> d]      \* d: sequence of <<key, value>> pairs
VList(l) == [t |-> "list", l |-> l]

\* Python truthiness of dict.get(k)
Truthy(m, k) ==
    /\ Has(m, k)
    /\ CASE m[k].t = "bool" -> m[k].b
         [] m[k].t = "int" -> m[k].i # 0
         [] m[k].t = "str" -> Len(m[k].s) > 0
         [] m[k].t = "dict" -> Len(m[k].d) > 0
         [] m[k].t = "list" -> Len(m[k].l) > 0
         [] OTHER -> FALSE

Quote(s) == <<"\"">> \o s \o <<"\"">>

\* json.dumps of a scalar member value
JsonScalar(v) ==
    CASE v.t = "str" -> Quote(v.s)
      [] v.t = "int" -> IntToStr(v.i)
      [] v.t = "bool" -> Lower(BoolToStr(v.b))
      [] OTHER -> <<"n", "u", "l", "l">>

RECURSIVE JsonMembers(_, _)
JsonMembers(d, i) ==
    IF i > Len(d) THEN <<>>
    ELSE (IF i > 1 THEN <<",", " ">> ELSE <<>>)
         \o Quote(d[i][1]) \o <<":", " ">> \o JsonScalar(d[i][2])
         \o JsonMembers(d, i + 1)

\* json.dumps(v) for a dict, with the default separators ", " and ": "
JsonDumps(d) == <<"{">> \o JsonMembers(d, 1) \o <<"}">>

_queue_attribute_list ==
    << "ContentBasedDeduplication",
       "DeduplicationScope",
       "DelaySeconds",
       "FifoQueue",
       "FifoThroughputLimit",
       "KmsDataKeyReusePeriodSeconds",
       "KmsMasterKeyId",
       "MaximumMessageSize",
       "MessageRetentionPeriod",
       "ReceiveMessageWaitTimeSeconds",
       "RedriveAllowPolicy",
       "RedrivePolicy",
       "SqsManagedSseEnabled",
       "VisibilityTimeout" >>

\* one pass of the loop body: the string stored for value v
CompileValue_BoolAsInt(v) ==
    CASE v.t = "str" -> v.s
      [] v.t = "bool" -> BoolToStr(v.b)
      [] v.t = "dict" -> JsonDumps(v.d)
      [] v.t = "int" -> IntToStr(v.i)

CompileValue(v) ==
    CASE v.t = "str" -> v.s
      [] v.t = "bool" -> Lower(BoolToStr(v.b))
      [] v.t = "dict" -> JsonDumps(v.d)
      [] v.t = "int" -> IntToStr(v.i)

Convertible(v) == v.t \in {"str", "bool", "dict", "int"}

\* the loop of _compile_sqs_queue_attributes from index i on: either the
\* finished mapping or the TypeError raised at the first unhandled type
RECURSIVE CompileFrom(_, _, _)
CompileFrom(i, properties, result) ==
    IF i > Len(_queue_attribute_list)
    THEN [ok |-> TRUE, attrs |-> result, key |-> ""]
    ELSE LET k == _queue_attribute_list[i] IN
         IF ~Has(properties, k) \/ properties[k].t = "none"
         THEN CompileFrom(i + 1, properties, result)
         ELSE IF Convertible(properties[k])
         THEN CompileFrom(i + 1, properties,
                          Put(result, k, CompileValue(properties[k])))
         ELSE [ok |-> FALSE, attrs |-> Empty, key |-> k]

_compile_sqs_queue_attributes(properties) == CompileFrom(1, properties, Empty)

\* the dict comprehension {t["Key"]: t["Value"] for t in model.get("Tags", [])}
TagsOf(model) ==
    IF Has(model, "Tags")
    THEN LET ts == model["Tags"] IN
         [k \in {ts[i].Key : i \in 1..Len(ts)} |->
             LET j == CHOOSE j \in 1..Len(ts) :
                         /\ ts[j].Key = k
                         /\ \A h \in (j + 1)..Len(ts) : ts[h].Key # k
             IN ts[j].Value]
    ELSE Empty

---------------------------------------------------------------------------
(* The collaborators: name helper and queue service *)

SHORT_UID == <<"0", "f", "3", "a", "9", "c", "1", "e">>

\* util.generate_default_name(stack_name, logical_resource_id)
generate_default_name(stack, lid) == stack \o <<"-">> \o lid \o <<"-">> \o SHORT_UID

\* the URL and ARN under which the service exposes the queue called name
QueueUrlOf(name) == <<"/">> \o name
QueueArnOf(name) == <<":">> \o name

Names(qs) == {q.name : q \in qs}
Urls(qs) == {QueueUrlOf(q.name) : q \in qs}
QueueNamed(qs, name) == CHOOSE q \in qs : q.name = name
QueueAt(qs, url) == CHOOSE q \in qs : QueueUrlOf(q.name) = url

\* CreateQueue(name, attributes, tags) -> {url}
create_queue(qs, name, attrs, tags) ==
    IF name \in Names(qs)
    THEN IF QueueNamed(qs, name).attrs = attrs
         THEN [error |-> "", queues |-> qs, QueueUrl |-> QueueUrlOf(name)]
         ELSE [error |-> "QueueNameExists", queues |-> qs, QueueUrl |-> <<>>]
    ELSE [error |-> "",
          queues |-> qs \cup {[name |-> name, attrs |-> attrs, tags |-> tags]},
          QueueUrl |-> QueueUrlOf(name)]

\* GetQueueUrl(name) -> {url}
get_queue_url(qs, name) ==
    IF name \in Names(qs)
    THEN [error |-> "", QueueUrl |-> QueueUrlOf(name)]
    ELSE [error |-> "QueueDoesNotExist", QueueUrl |-> <<>>]

\* DeleteQueue(url)
delete_queue(qs, url) ==
    IF url \in Urls(qs)
    THEN [error |-> "", queues |-> qs \ {QueueAt(qs, url)}]
    ELSE [error |-> "QueueDoesNotExist", queues |-> qs]

\* GetQueueAttributes(url, ["QueueArn"]) -> {attributes}
get_queue_attributes(qs, url) ==
    IF url \in Urls(qs)
    THEN [error |-> "", QueueArn |-> QueueArnOf(QueueAt(qs, url).name)]
    ELSE [error |-> "QueueDoesNotExist", QueueArn |-> <<>>]

\* what a service call can fail with besides its own errors
\* (permissions, throttling, unexpected API errors)
Faults == {"", "ServiceError"}

\* the faults the next service call may meet
FaultChoices(used) == IF used < MaxFaults THEN Faults ELSE {""}

Charge(used, fault) == IF fault # "" THEN used + 1 ELSE used

---------------------------------------------------------------------------
(* Requests the orchestrator sends *)

StackNames == {SubSeq(<<"s", "t", "k", "x">>, 1, n) : n \in 1..MaxStackLen}
LogicalIds == {<<"Q">>}

TestPolicy == << <<<<"m">>, VInt(3)>>, <<<<"d">>, VStr(<<"x">>)>> >>

TestTags == <<[Key |-> <<"t">>, Value |-> <<"v">>]>>

\* the optional properties a template declares besides QueueName and FifoQueue
Declared ==
    {Empty,
     ("VisibilityTimeout" :> VInt(300)) @@ ("ContentBasedDeduplication" :> VBool(TRUE))
         @@ ("KmsMasterKeyId" :> VStr(<<"k">>)) @@ ("RedrivePolicy" :> VDict(TestPolicy)),
     ("DelaySeconds" :> VInt(0)) @@ ("SqsManagedSseEnabled" :> VBool(FALSE))
         @@ ("MaximumMessageSize" :> VInt(0 - 5)) @@ ("DeduplicationScope" :> VNone),
     "MaximumMessageSize" :> VList(<<>>),
     ("DelaySeconds" :> VInt(7)) @@ ("RedriveAllowPolicy" :> VList(<<1>>)),
     ("Tags" :> TestTags) @@ ("QueueUrl" :> <<"/", "z">>) @@ ("Arn" :> <<":", "z">>)}

NameChoices == {Empty, "QueueName" :> <<"a">>, "QueueName" :> <<"b">>}
FifoChoices == {Empty, "FifoQueue" :> VBool(TRUE), "FifoQueue" :> VBool(FALSE)}

DesiredStates == {n @@ f @@ d : n \in NameChoices, f \in FifoChoices, d \in Declared}

\* the desired states tried on update: the same names and flags, fewer extras
Redeclared ==
    {Empty,
     ("VisibilityTimeout" :> VInt(30)) @@ ("Tags" :> TestTags)
         @@ ("QueueUrl" :> <<"/", "z">>) @@ ("Arn" :> <<":", "z">>)}

UpdatedStates == {n @@ f @@ d : n \in NameChoices, f \in FifoChoices, d \in Redeclared}

---------------------------------------------------------------------------
(* The handlers *)

NoRequest ==
    [op |-> "", model |-> Empty, attributes |-> Empty, queue_name |-> <<>>,
     queue_url |-> <<>>, generated |-> FALSE, other_changes |-> FALSE,
     renamed |-> FALSE, same_ids |-> FALSE, fault |-> ""]

NoResult == [op |-> "", status |-> "", error |-> "", resource_model |-> Empty]

Init ==
    /\ stack_name \in StackNames
    /\ logical_resource_id \in LogicalIds
    /\ queues = {}
    /\ phase = "ABSENT"
    /\ previous_state = Empty
    /\ pc = "idle"
    /\ req = NoRequest
    /\ last = NoResult
    /\ calls = <<>>
    /\ pre = {}
    /\ mid = {}
    /\ assigned = [QueueUrl |-> <<>>, Arn |-> <<>>]
    /\ clean = TRUE
    /\ del_hist = <<>>
    /\ faults = 0
    /\ issued = {}

\* an exception leaves the handler: no ProgressEvent is returned
Raised(op, err) ==
    /\ pc' = "idle"
    /\ last' = [op |-> op, status |-> "RAISED", error |-> err, resource_model |-> Empty]
    /\ clean' = FALSE

\* return ProgressEvent(status=OperationStatus.SUCCESS, resource_model=model)
Returned(op, model) ==
    /\ pc' = "idle"
    /\ last' = [op |-> op, status |-> "SUCCESS", error |-> "", resource_model |-> model]
    /\ clean' = clean

\* queue_name is falsy: the key is missing or the name is the empty string
NameMissing(model) == ~Has(model, "QueueName") \/ Len(model["QueueName"]) = 0

\* the name create gives a queue whose desired state has no QueueName
CreateQueueName_NoSuffix(model, stack, lid) == generate_default_name(stack, lid)

CreateQueueName(model, stack, lid) ==
    IF Truthy(model, "FifoQueue")
    THEN DropLast(generate_default_name(stack, lid), 5) \o FIFO_SUFFIX
    ELSE generate_default_name(stack, lid)

\* the model create works on once QueueName is settled
CreateModel(desired, stack, lid) ==
    IF NameMissing(desired)
    THEN Put(desired, "QueueName", CreateQueueName(desired, stack, lid))
    ELSE desired

\* the model create and update return: the read-only properties are set
WithReadOnly_KeepClient(model, url, arn) ==
    (IF Has(model, "QueueUrl") THEN model ELSE Put(model, "QueueUrl", url))
        @@ ("Arn" :> arn)

WithReadOnly(model, url, arn) == Put(Put(model, "QueueUrl", url), "Arn", arn)

\* create, up to and including the create_queue call
create ==
    /\ pc = "idle"
    /\ phase = "ABSENT"
    /\ \E desired \in DesiredStates, fault \in FaultChoices(faults) :
        LET model == CreateModel(desired, stack_name, logical_resource_id)
            compiled == _compile_sqs_queue_attributes(model)
            r == create_queue(queues, model["QueueName"], compiled.attrs, TagsOf(model))
            request == [op |-> "create", model |-> model,
                        attributes |-> compiled.attrs,
                        queue_name |-> model["QueueName"], queue_url |-> <<>>,
                        generated |-> NameMissing(desired),
                        other_changes |-> FALSE, renamed |-> FALSE,
                        same_ids |-> FALSE, fault |-> fault]
        IN
        /\ pre' = queues
        /\ faults' = Charge(faults, fault)
        /\ mid' = queues
        /\ del_hist' = <<>>
        /\ assigned' = IF compiled.ok /\ fault = "" /\ r.error = ""
                       THEN [QueueUrl |-> r.QueueUrl, Arn |-> <<>>]
                       ELSE [QueueUrl |-> <<>>, Arn |-> <<>>]
        /\ phase' = IF compiled.ok /\ fault = "" /\ r.error = "" THEN phase ELSE "FAILED"
        /\ UNCHANGED <<stack_name, logical_resource_id, previous_state, issued>>
        /\ IF ~compiled.ok
           THEN /\ Raised("create", "TypeError")
                /\ req' = [request EXCEPT !.fault = ""]
                /\ calls' = <<>>
                /\ UNCHANGED queues
           ELSE /\ calls' = <<"create_queue">>
                /\ req' = request
                /\ IF fault # ""
                   THEN Raised("create", fault) /\ UNCHANGED queues
                   ELSE IF r.error # ""
                   THEN Raised("create", r.error) /\ UNCHANGED queues
                   ELSE /\ queues' = r.queues
                        /\ pc' = "create_arn"
                        /\ UNCHANGED <<last, clean>>

\* create, from the get_queue_attributes call to the return
create_arn ==
    /\ pc = "create_arn"
    /\ \E fault \in FaultChoices(faults) :
        LET r == get_queue_attributes(queues, assigned.QueueUrl)
            model == WithReadOnly(req.model, assigned.QueueUrl, r.QueueArn)
        IN
        /\ faults' = Charge(faults, fault)
        /\ calls' = Append(calls, "get_queue_attributes")
        /\ UNCHANGED <<stack_name, logical_resource_id, queues, pre, mid, del_hist>>
        /\ IF fault # "" \/ r.error # ""
           THEN /\ Raised("create", IF fault # "" THEN fault ELSE r.error)
                /\ req' = [req EXCEPT !.fault = fault]
                /\ phase' = "FAILED"
                /\ UNCHANGED <<previous_state, assigned, issued>>
           ELSE /\ Returned("create", model)
                /\ req' = [req EXCEPT !.model = model]
                /\ assigned' = [assigned EXCEPT !.Arn = r.QueueArn]
                /\ issued' = issued \cup {[assigned EXCEPT !.Arn = r.QueueArn]}
                /\ previous_state' = model
                /\ phase' = "PRESENT"

\* what one completed delete call leaves in the orchestrator's log
DeleteOutcome(status, error, fault, qs) ==
    [status |-> status, error |-> error, fault |-> fault, queues |-> qs]

\* the except clause of delete: the errors it turns into SUCCESS
Caught_Any(err) == TRUE

Caught(err) == err = "QueueDoesNotExist"

\* delete, up to and including the get_queue_url call
delete ==
    /\ pc = "idle"
    /\ phase \in {"PRESENT", "DELETED"}
    /\ Len(del_hist) < MaxDeletes
    /\ \E fault \in FaultChoices(faults) :
        LET request == [op |-> "delete", model |-> previous_state,
                        attributes |-> Empty, queue_name |-> <<>>,
                        queue_url |-> <<>>, generated |-> FALSE,
                        other_changes |-> FALSE, renamed |-> FALSE,
                        same_ids |-> FALSE, fault |-> fault]
        IN
        /\ pre' = queues
        /\ faults' = Charge(faults, fault)
        /\ mid' = queues
        /\ assigned' = [QueueUrl |-> <<>>, Arn |-> <<>>]
        /\ UNCHANGED <<stack_name, logical_resource_id, queues, previous_state, issued>>
        /\ IF ~Has(previous_state, "QueueName")
           THEN /\ Raised("delete", "KeyError")
                /\ req' = [request EXCEPT !.fault = ""]
                /\ calls' = <<>>
                /\ del_hist' = Append(del_hist, DeleteOutcome("RAISED", "KeyError", "", queues))
                /\ UNCHANGED phase
           ELSE LET r == get_queue_url(queues, previous_state["QueueName"])
                    err == IF fault # "" THEN fault ELSE r.error
                IN
                /\ calls' = <<"get_queue_url">>
                /\ IF err = ""
                   THEN /\ pc' = "delete_queue"
                        /\ req' = [request EXCEPT !.queue_url = r.QueueUrl]
                        /\ UNCHANGED <<last, clean, del_hist, phase>>
                   ELSE IF Caught(err)
                   THEN /\ Returned("delete", previous_state)
                        /\ req' = request
                        /\ del_hist' = Append(del_hist, DeleteOutcome("SUCCESS", "", fault, queues))
                        /\ phase' = "DELETED"
                   ELSE /\ Raised("delete", err)
                        /\ req' = request
                        /\ del_hist' = Append(del_hist, DeleteOutcome("RAISED", err, fault, queues))
                        /\ UNCHANGED phase

\* delete, from the delete_queue call to the return
delete_queue_step ==
    /\ pc = "delete_queue"
    /\ \E fault \in FaultChoices(faults) :
        LET r == delete_queue(queues, req.queue_url)
            err == IF fault # "" THEN fault ELSE r.error
        IN
        /\ faults' = Charge(faults, fault)
        /\ calls' = Append(calls, "delete_queue")
        /\ req' = [req EXCEPT !.fault = fault]
        /\ UNCHANGED <<stack_name, logical_resource_id, previous_state, pre, mid,
                       assigned, issued>>
        /\ IF err = "" \/ Caught(err)
           THEN /\ Returned("delete", req.model)
                /\ queues' = IF err = "" THEN r.queues ELSE queues
                /\ del_hist' = Append(del_hist,
                                      DeleteOutcome("SUCCESS", "", fault,
                                                    IF err = "" THEN r.queues ELSE queues))
                /\ phase' = "DELETED"
           ELSE /\ Raised("delete", err)
                /\ del_hist' = Append(del_hist, DeleteOutcome("RAISED", err, fault, queues))
                /\ UNCHANGED <<queues, phase>>

\* request.desired_state.get(key, request.previous_state.get(key))
\*     != request.previous_state.get(key)
GetDiffers(desired, previous, key) ==
    /\ Has(desired, key)
    /\ (~Has(previous, key) \/ desired[key] # previous[key])

\* the desired state declares a property, other than the create-only and the
\* read-only ones, that the previous state does not have with the same value
OtherChanges(desired, previous) ==
    \E k \in DOMAIN desired \ {"QueueName", "FifoQueue", "QueueUrl", "Arn"} :
        ~Has(previous, k) \/ previous[k] # desired[k]

\* previous_state["QueueName"] is subscripted, so it must be present
should_replace(desired, previous) ==
    \/ (IF Has(desired, "QueueName") THEN desired["QueueName"]
        ELSE previous["QueueName"]) # previous["QueueName"]
    \/ GetDiffers(desired, previous, "FifoQueue")

\* the name update gives the replacement queue
UpdateQueueName(model, stack, lid) ==
    IF Truthy(model, "FifoQueue")
    THEN DropLast(generate_default_name(stack, lid), 5) \o FIFO_SUFFIX
    ELSE generate_default_name(stack, lid)

\* update, up to and including the delete_queue call of a replacement
update ==
    /\ pc = "idle"
    /\ phase = "PRESENT"
    /\ \E desired \in UpdatedStates, fault \in FaultChoices(faults) :
        LET queue_name == UpdateQueueName(desired, stack_name, logical_resource_id)
            request == [op |-> "update", model |-> desired, attributes |-> Empty,
                        queue_name |-> <<>>, queue_url |-> <<>>,
                        generated |-> FALSE,
                        other_changes |-> OtherChanges(desired, previous_state),
                        renamed |-> GetDiffers(desired, previous_state, "QueueName"),
                        same_ids |-> ~GetDiffers(desired, previous_state, "QueueName")
                                     /\ ~GetDiffers(desired, previous_state, "FifoQueue"),
                        fault |-> ""]
            dropped == [request EXCEPT !.model = Empty]
        IN
        /\ pre' = queues
        /\ faults' = Charge(faults, fault)
        /\ del_hist' = <<>>
        /\ assigned' = [QueueUrl |-> <<>>, Arn |-> <<>>]
        /\ UNCHANGED <<stack_name, logical_resource_id, phase, previous_state, issued>>
        /\ IF ~Has(previous_state, "QueueName")
           THEN /\ Raised("update", "KeyError")
                /\ req' = dropped
                /\ calls' = <<>>
                /\ mid' = queues
                /\ UNCHANGED queues
           ELSE IF ~should_replace(desired, previous_state)
           THEN /\ Returned("update", previous_state)
                /\ req' = dropped
                /\ calls' = <<>>
                /\ mid' = queues
                /\ UNCHANGED queues
           ELSE LET r == delete_queue(queues, previous_state["QueueUrl"]) IN
                /\ calls' = <<"delete_queue">>
                /\ req' = [(IF fault # "" \/ r.error # "" THEN dropped ELSE request)
                              EXCEPT !.queue_name = queue_name,
                                     !.queue_url = previous_state["QueueUrl"],
                                     !.fault = fault]
                /\ IF fault # "" \/ r.error # ""
                   THEN /\ Raised("update", IF fault # "" THEN fault ELSE r.error)
                        /\ mid' = queues
                        /\ UNCHANGED queues
                   ELSE /\ queues' = r.queues
                        /\ mid' = r.queues
                        /\ pc' = "update_create"
                        /\ UNCHANGED <<last, clean>>

\* a failure of the replacement's create_queue call: nothing catches it
CreateFailed_Swallowed(err) == Returned("update", req.model)

CreateFailed(err) == Raised("update", err)

\* update, the create_queue call of a replacement
update_create ==
    /\ pc = "update_create"
    /\ \E fault \in FaultChoices(faults) :
        LET r == create_queue(queues, req.queue_name, Empty, Empty) IN
        /\ faults' = Charge(faults, fault)
        /\ calls' = Append(calls, "create_queue")
        /\ UNCHANGED <<stack_name, logical_resource_id, phase, previous_state,
                       pre, mid, del_hist, issued>>
        /\ IF fault # "" \/ r.error # ""
           THEN /\ CreateFailed(IF fault # "" THEN fault ELSE r.error)
                /\ req' = [req EXCEPT !.fault = fault, !.model = Empty]
                /\ UNCHANGED <<queues, assigned>>
           ELSE /\ queues' = r.queues
                /\ req' = [req EXCEPT !.fault = fault]
                /\ assigned' = [QueueUrl |-> r.QueueUrl, Arn |-> <<>>]
                /\ pc' = "update_arn"
                /\ UNCHANGED <<last, clean>>

\* update, from the get_queue_attributes call of a replacement to the return
update_arn ==
    /\ pc = "update_arn"
    /\ \E fault \in FaultChoices(faults) :
        LET r == get_queue_attributes(queues, assigned.QueueUrl)
            model == WithReadOnly(req.model, assigned.QueueUrl, r.QueueArn)
        IN
        /\ faults' = Charge(faults, fault)
        /\ calls' = Append(calls, "get_queue_attributes")
        /\ UNCHANGED <<stack_name, logical_resource_id, queues, pre, mid, del_hist, phase>>
        /\ IF fault # "" \/ r.error # ""
           THEN /\ Raised("update", IF fault # "" THEN fault ELSE r.error)
                /\ req' = [req EXCEPT !.fault = fault, !.model = Empty]
                /\ UNCHANGED <<previous_state, assigned, issued>>
           ELSE /\ Returned("update", model)
                /\ req' = [req EXCEPT !.model = model, !.fault = ""]
                /\ assigned' = [assigned EXCEPT !.Arn = r.QueueArn]
                /\ issued' = issued \cup {[assigned EXCEPT !.Arn = r.QueueArn]}
                /\ previous_state' = model

Next ==
    \/ create
    \/ create_arn
    \/ delete
    \/ delete_queue_step
    \/ update
    \/ update_create
    \/ update_arn

Spec == Init /\ [][Next]_vars

---------------------------------------------------------------------------
(* Readers used to state what the compiled attribute strings mean *)

IsDigit(c) == \E i \in 1..10 : Digits[i] = c

DigitVal(c) == (CHOOSE i \in 1..10 : Digits[i] = c) - 1

RECURSIVE ParseNat(_)
ParseNat(s) ==
    IF Len(s) = 0 THEN 0
    ELSE 10 * ParseNat(SubSeq(s, 1, Len(s) - 1)) + DigitVal(s[Len(s)])

\* s is the decimal text of an integer: optional sign, digits, no leading zero
IsDecimal(s) ==
    /\ Len(s) > 0
    /\ LET body == IF s[1] = "-" THEN Tail(s) ELSE s IN
       /\ Len(body) > 0
       /\ \A i \in 1..Len(body) : IsDigit(body[i])
       /\ (Len(body) > 1 => body[1] # "0")

ParseInt(s) == IF s[1] = "-" THEN 0 - ParseNat(Tail(s)) ELSE ParseNat(s)

RECURSIVE QuoteAt(_, _)
QuoteAt(s, i) ==
    IF i > Len(s) THEN 0 ELSE IF s[i] = "\"" THEN i ELSE QuoteAt(s, i + 1)

RECURSIVE NumEnd(_, _)
NumEnd(s, i) ==
    IF i <= Len(s) /\ (IsDigit(s[i]) \/ s[i] = "-") THEN NumEnd(s, i + 1) ELSE i

SkipSpace(s, i) == IF i <= Len(s) /\ s[i] = " " THEN i + 1 ELSE i

NoValue == [ok |-> FALSE, v |-> VNone, next |-> 0]

\* the JSON string or number that starts at position i of s
JsonValueAt(s, i) ==
    IF i > Len(s) THEN NoValue
    ELSE IF s[i] = "\""
    THEN LET j == QuoteAt(s, i + 1) IN
         IF j = 0 THEN NoValue
         ELSE [ok |-> TRUE, v |-> VStr(SubSeq(s, i + 1, j - 1)), next |-> j + 1]
    ELSE LET j == NumEnd(s, i) IN
         IF j > i /\ IsDecimal(SubSeq(s, i, j - 1))
         THEN [ok |-> TRUE, v |-> VInt(ParseInt(SubSeq(s, i, j - 1))), next |-> j]
         ELSE NoValue

NoObject == [ok |-> FALSE, d |-> <<>>]

\* the members of a JSON object from position i of s up to its closing brace
RECURSIVE JsonMembersAt(_, _, _)
JsonMembersAt(s, i, acc) ==
    LET key == JsonValueAt(s, i)
        colon == IF key.ok THEN key.next ELSE 0
        val == IF key.ok /\ colon <= Len(s) /\ s[colon] = ":"
               THEN JsonValueAt(s, SkipSpace(s, colon + 1))
               ELSE NoValue
        members == Append(acc, <<key.v.s, val.v>>)
    IN
    IF ~key.ok \/ key.v.t # "str" \/ ~val.ok \/ val.next > Len(s) THEN NoObject
    ELSE IF s[val.next] = "}"
    THEN (IF val.next = Len(s) THEN [ok |-> TRUE, d |-> members] ELSE NoObject)
    ELSE IF s[val.next] = ","
    THEN JsonMembersAt(s, SkipSpace(s, val.next + 1), members)
    ELSE NoObject

\* json.loads for the text of an object of strings and integers
JsonParse(s) ==
    IF Len(s) < 2 \/ s[1] # "{" THEN NoObject
    ELSE IF s = <<"{", "}">> THEN [ok |-> TRUE, d |-> <<>>]
    ELSE JsonMembersAt(s, 2, <<>>)

---------------------------------------------------------------------------
(* Claims *)

Idle(op) == pc = "idle" /\ last.op = op

Succeeded(op) == Idle(op) /\ last.status = "SUCCESS"

\* C1: in a lifecycle of create and successful updates, a delete that returns
\* SUCCESS leaves no queue of the resource in the service.
C1_DeleteLeavesAbsent ==
    (Succeeded("delete") /\ clean) => queues = {}

\* C2: two consecutive delete calls with the same previous state that meet no
\* service fault both return SUCCESS, the second raises no error, and the
\* service holds the same queues after the second call as after the first.
C2_DeleteIdempotent ==
    \A i \in 1..(Len(del_hist) - 1) :
        (faults = 0 /\ del_hist[i].fault = "" /\ del_hist[i + 1].fault = "") =>
            /\ del_hist[i].status = "SUCCESS"
            /\ del_hist[i + 1].status = "SUCCESS"
            /\ del_hist[i + 1].error = ""
            /\ del_hist[i + 1].queues = del_hist[i].queues

\* C3: a successful update whose desired QueueName differs from the previous
\* QueueName has replaced the queue, and the returned QueueUrl differs from
\* the previous state's QueueUrl.
C3_RenameChangesUrl ==
    (Succeeded("update") /\ clean /\ req.renamed) =>
        /\ calls = <<"delete_queue", "create_queue", "get_queue_attributes">>
        /\ last.resource_model["QueueUrl"] # req.queue_url

\* C4: an update in which neither QueueName nor FifoQueue differs from the
\* previous state returns SUCCESS with the previous state as its model and
\* calls the service not at all, so the service's queues are as they were.
C4_NoReplaceReturnsPrevious ==
    (Idle("update") /\ faults = 0 /\ req.same_ids) =>
        /\ last.status = "SUCCESS"
        /\ last.resource_model = previous_state
        /\ calls = <<>>
        /\ queues = pre

\* C5: after a successful create or update the returned model has QueueUrl
\* and Arn, and they are a pair the service handed out: the URL its
\* create_queue returned and the QueueArn it reported for that URL.
C5_ReadOnlyAssigned ==
    (Succeeded("create") \/ Succeeded("update")) =>
        /\ Has(last.resource_model, "QueueUrl")
        /\ Has(last.resource_model, "Arn")
        /\ [QueueUrl |-> last.resource_model["QueueUrl"],
            Arn |-> last.resource_model["Arn"]] \in issued
        /\ (calls # <<>> =>
              /\ last.resource_model["QueueUrl"] = assigned.QueueUrl
              /\ last.resource_model["Arn"] = assigned.Arn)

C5_Witness ==
    /\ Succeeded("update")
    /\ calls # <<>>
    /\ Has(req.model, "Tags")
    /\ last.resource_model["QueueUrl"] # <<"/", "z">>

\* the desired state with everything but the FifoQueue flag removed
OnlyFifo(model) == [k \in DOMAIN model \cap {"FifoQueue"} |-> model[k]]

DeclaredKeys(model) ==
    {k \in {_queue_attribute_list[i] : i \in 1..Len(_queue_attribute_list)} :
        Has(model, k) /\ model[k].t # "none"}

\* what the string stored for a declared value must be
Renders(v, text) ==
    CASE v.t = "str" -> text = v.s
      [] v.t = "bool" -> text = (IF v.b THEN <<"t", "r", "u", "e">>
                                 ELSE <<"f", "a", "l", "s", "e">>)
      [] v.t = "int" -> IsDecimal(text) /\ ParseInt(text) = v.i
      [] v.t = "dict" -> JsonParse(text) = [ok |-> TRUE, d |-> v.d]
      [] OTHER -> FALSE

\* C7: create compiles every declared attribute to its string (string as is,
\* boolean to "true"/"false", integer to decimal text, dict to JSON text) and
\* drops none; a value of another type makes create raise a TypeError before
\* it has called the service, so no queue is created.
C7_AttributeCompilation ==
    (req.op = "create") =>
        IF \A k \in DeclaredKeys(req.model) :
               req.model[k].t \in {"str", "bool", "int", "dict"}
        THEN /\ DOMAIN req.attributes = DeclaredKeys(req.model)
             /\ \A k \in DeclaredKeys(req.model) :
                    Renders(req.model[k], req.attributes[k])
             /\ calls # <<>>
             /\ (last.op = "create" => last.error # "TypeError")
        ELSE /\ Idle("create")
             /\ last.status = "RAISED"
             /\ last.error = "TypeError"
             /\ calls = <<>>
             /\ queues = {}

C7_Witness ==
    /\ Succeeded("create")
    /\ \E k \in DeclaredKeys(req.model) : req.model[k].t = "dict"
    /\ \E k \in DeclaredKeys(req.model) : req.model[k].t = "int"
    /\ \E k \in DeclaredKeys(req.model) : req.model[k].t = "bool"
    /\ \E q \in queues : q.attrs = req.attributes

\* C8: a replacing update deletes the old queue, by the previous QueueUrl,
\* before it creates the new one, so between the two calls the resource has no
\* queue; when the create call fails the error leaves update, no SUCCESS is
\* returned and the service is left as it was between the two calls.
C8_ReplaceWindow ==
    /\ pc = "update_create" =>
          /\ calls = <<"delete_queue">>
          /\ req.queue_url \notin Urls(queues)
          /\ req.queue_name \notin Names(queues)
          /\ queues = {q \in pre : QueueUrlOf(q.name) # req.queue_url}
    /\ (Idle("update") /\ calls = <<"delete_queue", "create_queue">>) =>
          /\ last.status = "RAISED"
          /\ last.error # ""
          /\ (req.fault # "" => last.error = req.fault)
          /\ req.queue_url \notin Urls(queues)
          /\ queues = mid
          /\ queues = {q \in pre : QueueUrlOf(q.name) # req.queue_url}

C8_Witness ==
    /\ Idle("update")
    /\ calls = <<"delete_queue", "create_queue">>
    /\ req.fault = "ServiceError"
    /\ pre # {}
    /\ queues = {}

\* C9: delete turns only the service's QueueDoesNotExist into SUCCESS; when
\* the URL lookup or the delete call fails otherwise, delete raises that error
\* and the queues of the service are as they were before the call.
C9_DeleteErrorsPropagate ==
    Idle("delete") =>
        /\ req.fault # "" =>
              /\ last.status = "RAISED"
              /\ last.error = req.fault
        /\ last.status = "RAISED" => queues = pre
        /\ last.status = "SUCCESS" => req.fault = ""

C9_Witness ==
    /\ Idle("delete")
    /\ req.fault = "ServiceError"
    /\ calls = <<"get_queue_url", "delete_queue">>
    /\ Has(previous_state, "QueueName")
    /\ previous_state["QueueName"] \in Names(queues)

\* C10: after a successful create or update the returned model has a
\* QueueName, and looking that name up in the service yields the model's
\* QueueUrl.
C10_NameResolvesToUrl ==
    ((Succeeded("create") \/ Succeeded("update")) /\ clean) =>
        /\ Has(last.resource_model, "QueueName")
        /\ get_queue_url(queues, last.resource_model["QueueName"]).QueueUrl
              = last.resource_model["QueueUrl"]

====
